---- MODULE Spec2Model ----
(***************************************************************************)
(* Model of src/app.py: the design-prompt parser, the style-JSON           *)
(* extractor, the slide parser, the local summarizer and the "Generate     *)
(* PPT" handler.  A Python str is a sequence of one-character strings; a    *)
(* Python value is a tagged record (PyStr, PyInt, PyBool, PyNone, PyDict, PyList).   *)
(***************************************************************************)
EXTENDS Integers, Sequences, FiniteSets, TLC

(* ------------------------------------------------------------------ *)
(* Python values                                                      *)
(* ------------------------------------------------------------------ *)
PyStr(s) == [t |-> "str", v |-> s]
PyInt(n) == [t |-> "int", v |-> n]
PyBool(b) == [t |-> "bool", v |-> b]
PyDict(f) == [t |-> "dict", v |-> f]
PyList(q) == [t |-> "list", v |-> q]
PyNone == [t |-> "none"]
\* the value json.loads raises on (never returned to a caller)
JSONDecodeError == [t |-> "error"]

\* Python truthiness (`if style_json:`)
Truthy(x) ==
  CASE x.t = "none" -> FALSE
    [] x.t = "str" -> Len(x.v) > 0
    [] x.t = "int" -> x.v # 0
    [] x.t = "bool" -> x.v
    [] x.t = "dict" -> DOMAIN x.v # {}
    [] x.t = "list" -> Len(x.v) > 0
    [] OTHER -> FALSE

(* ------------------------------------------------------------------ *)
(* Characters and the str methods the program uses                    *)
(* ------------------------------------------------------------------ *)
Uppers == <<"A","B","C","D","E","F","G","H","I","J","K","L","M","N","O","P","Q","R","S","T","U","V","W","X","Y","Z">>
Lowers == <<"a","b","c","d","e","f","g","h","i","j","k","l","m","n","o","p","q","r","s","t","u","v","w","x","y","z">>
Digits == <<"0","1","2","3","4","5","6","7","8","9">>

Range(q) == {q[i] : i \in 1..Len(q)}
IsSpace(c) == c \in {" ", "\n", "\t", "\r"}
IsDigit(c) == c \in Range(Digits)
IsHex(c) == c \in Range(Digits) \cup Range(<<"a","b","c","d","e","f","A","B","C","D","E","F">>)
DigitVal(c) == (CHOOSE i \in 1..10 : Digits[i] = c) - 1

\* str.lower(), one character
LowerChar(c) ==
  IF c \in Range(Uppers) THEN Lowers[CHOOSE i \in 1..26 : Uppers[i] = c] ELSE c
\* str.lower()
Lower(s) == [i \in 1..Len(s) |-> LowerChar(s[i])]

\* s[a-1:b-1] of Python in 1-based positions: the characters a .. b-1
Slice(s, a, b) == IF b <= a THEN <<>> ELSE SubSeq(s, a, b - 1)

\* pat occurs in s at position p
StartsAt(s, p, pat) ==
  /\ p >= 1
  /\ p + Len(pat) - 1 <= Len(s)
  /\ \A j \in 1..Len(pat) : s[p + j - 1] = pat[j]
\* the same, ignoring case (re.IGNORECASE on a literal)
StartsAtI(s, p, pat) == StartsAt(Lower(s), p, Lower(pat))
\* `pat in s`
Contains(s, pat) == \E p \in 1..(Len(s) - Len(pat) + 1) : StartsAt(s, p, pat)
\* s.startswith(pat)
StartsWith(s, pat) == StartsAt(s, 1, pat)

Min(a, b) == IF a <= b THEN a ELSE b

\* the least element of a non-empty set of integers
Least(P) == CHOOSE x \in P : \A y \in P : x <= y
Greatest(P) == CHOOSE x \in P : \A y \in P : y <= x
\* the k-th smallest element of a set of integers
Pick(P, k) == CHOOSE x \in P : Cardinality({y \in P : y <= x}) = k

\* s.strip(): without leading and trailing whitespace
Strip(s) ==
  LET keep == {i \in 1..Len(s) : ~IsSpace(s[i])}
  IN IF keep = {} THEN <<>> ELSE SubSeq(s, Least(keep), Greatest(keep))

\* s.lstrip(chars): without the leading characters that are in the set cs
LStripSet(s, cs) ==
  LET keep == {i \in 1..Len(s) : s[i] \notin cs}
  IN IF keep = {} THEN <<>> ELSE SubSeq(s, Least(keep), Len(s))

\* " ".join(parts)
RECURSIVE JoinSp(_)
JoinSp(parts) ==
  IF Len(parts) = 0 THEN <<>>
  ELSE IF Len(parts) = 1 THEN parts[1]
  ELSE parts[1] \o <<" ">> \o JoinSp(Tail(parts))

\* the concatenation of a sequence of strings
RECURSIVE Concat(_)
Concat(parts) == IF Len(parts) = 0 THEN <<>> ELSE parts[1] \o Concat(Tail(parts))

(* ------------------------------------------------------------------ *)
(* parse_design_prompt                                                *)
(* ------------------------------------------------------------------ *)
K_background_color == <<"b","a","c","k","g","r","o","u","n","d","_","c","o","l","o","r">>
K_font == <<"f","o","n","t">>
K_font_size == <<"f","o","n","t","_","s","i","z","e">>
K_font_color == <<"f","o","n","t","_","c","o","l","o","r">>
K_emoji_in_bullets == <<"e","m","o","j","i","_","i","n","_","b","u","l","l","e","t","s">>

\* COLOR_MAP in its iteration (insertion) order
COLOR_MAP == <<
  <<<<"b","l","u","e">>, <<"#","0","0","3","3","6","6">>>>, <<<<"d","a","r","k"," ","b","l","u","e">>, <<"#","0","0","3","3","6","6">>>>, <<<<"b","l","a","c","k">>, <<"#","0","0","0","0","0","0">>>>,
  <<<<"w","h","i","t","e">>, <<"#","F","F","F","F","F","F">>>>, <<<<"g","r","e","e","n">>, <<"#","0","0","8","0","0","0">>>>, <<<<"r","e","d">>, <<"#","F","F","0","0","0","0">>>>,
  <<<<"y","e","l","l","o","w">>, <<"#","F","F","C","C","0","0">>>>, <<<<"g","r","a","y">>, <<"#","8","0","8","0","8","0">>>>, <<<<"d","a","r","k">>, <<"#","3","3","3","3","3","3">>>>,
  <<<<"l","i","g","h","t">>, <<"#","F","8","F","8","F","8">>>>, <<<<"o","r","a","n","g","e">>, <<"#","F","F","8","C","0","0">>>>, <<<<"p","u","r","p","l","e">>, <<"#","8","0","0","0","8","0">>>> >>

FONT_OPTIONS == << <<"A","r","i","a","l">>, <<"C","a","l","i","b","r","i">>, <<"T","i","m","e","s"," ","N","e","w"," ","R","o","m","a","n">>, <<"H","e","l","v","e","t","i","c","a">>,
                   <<"C","o","m","i","c"," ","S","a","n","s"," ","M","S">>, <<"V","e","r","d","a","n","a">> >>

\* the names whose background takes a white font (line 82)
DarkNames == {<<"b","l","u","e">>, <<"d","a","r","k"," ","b","l","u","e">>, <<"b","l","a","c","k">>, <<"d","a","r","k">>, <<"p","u","r","p","l","e">>}

\* font sizes of the "large"/"big" and "small"/"compact" hints, and the default
LargeFontSize == 20
SmallFontSize == 12
DefaultFontSize == 14

\* re.search(r'#([0-9a-fA-F]{6})', prompt): the start of the leftmost match, 0 if none
HexSearch(prompt) ==
  LET hits == {p \in 1..Len(prompt) :
                 /\ prompt[p] = "#"
                 /\ p + 6 <= Len(prompt)
                 /\ \A j \in 1..6 : IsHex(prompt[p + j])}
  IN IF hits = {} THEN 0 ELSE Least(hits)

\* re.search(r'font ?size ?[:= ]?(\d{2})', prompt_l): the position of the two
\* digits of the leftmost match, 0 if none
FontSizeAt(s, p) ==
  LET hs == {d \in (p + 8)..(p + 11) :
               /\ d + 1 <= Len(s)
               /\ IsDigit(s[d]) /\ IsDigit(s[d + 1])
               /\ \E a \in 0..1, b \in 0..1, c \in 0..1 :
                    /\ d = p + 8 + a + b + c
                    /\ StartsAt(s, p, <<"f","o","n","t">>)
                    /\ (a = 1 => s[p + 4] = " ")
                    /\ StartsAt(s, p + 4 + a, <<"s","i","z","e">>)
                    /\ (b = 1 => s[p + 8 + a] = " ")
                    /\ (c = 1 => s[p + 8 + a + b] \in {":", "=", " "})}
  IN IF hs = {} THEN 0 ELSE Least(hs)
FontSizeSearch(s) ==
  LET hits == {p \in 1..Len(s) : FontSizeAt(s, p) # 0}
  IN IF hits = {} THEN 0 ELSE FontSizeAt(s, Least(hits))

\* a font loop that compares the names as written, not lower-cased
MatchedFonts_CaseSensitive(prompt_l) ==
  {i \in 1..Len(FONT_OPTIONS) : Contains(prompt_l, FONT_OPTIONS[i])}

\* lines 86-87: the FONT_OPTIONS whose lower-cased name occurs in the prompt
MatchedFonts(prompt_l) ==
  {i \in 1..Len(FONT_OPTIONS) : Contains(prompt_l, Lower(FONT_OPTIONS[i]))}

parse_design_prompt(prompt) ==
  LET prompt_l == Lower(prompt)
      style0 == (K_background_color :> PyStr(<<"#","F","F","F","F","F","F">>)) @@ (K_font :> PyStr(<<"A","r","i","a","l">>))
                @@ (K_font_size :> PyInt(DefaultFontSize)) @@ (K_font_color :> PyStr(<<"#","0","0","0","0","0","0">>))
                @@ (K_emoji_in_bullets :> PyBool(FALSE))
      \* hex color
      found_hex == HexSearch(prompt)
      style1 == IF found_hex # 0
                THEN [style0 EXCEPT ![K_background_color] =
                        PyStr(<<"#">> \o SubSeq(prompt, found_hex + 1, found_hex + 6))]
                ELSE style0
      \* color words: the first name of COLOR_MAP that occurs, then break
      named == {i \in 1..Len(COLOR_MAP) : Contains(prompt_l, COLOR_MAP[i][1])}
      style2 == IF named # {}
                THEN LET i == Least(named)
                     IN [style1 EXCEPT
                           ![K_background_color] = PyStr(COLOR_MAP[i][2]),
                           ![K_font_color] = IF COLOR_MAP[i][1] \in DarkNames
                                             THEN PyStr(<<"#","F","F","F","F","F","F">>) ELSE PyStr(<<"#","0","0","0","0","0","0">>)]
                ELSE style1
      \* font
      fonts == MatchedFonts(prompt_l)
      style3 == IF fonts # {}
                THEN [style2 EXCEPT ![K_font] = PyStr(FONT_OPTIONS[Least(fonts)])]
                ELSE style2
      \* font size hints
      style4 == IF Contains(prompt_l, <<"l","a","r","g","e">>) \/ Contains(prompt_l, <<"b","i","g">>)
                   \/ Contains(prompt_l, <<"t","i","t","l","e"," ","l","a","r","g","e">>)
                THEN [style3 EXCEPT ![K_font_size] = PyInt(LargeFontSize)] ELSE style3
      style5 == IF Contains(prompt_l, <<"s","m","a","l","l">>) \/ Contains(prompt_l, <<"c","o","m","p","a","c","t">>)
                THEN [style4 EXCEPT ![K_font_size] = PyInt(SmallFontSize)] ELSE style4
      m == FontSizeSearch(prompt_l)
      style6 == IF m # 0
                THEN [style5 EXCEPT ![K_font_size] =
                        PyInt(10 * DigitVal(prompt_l[m]) + DigitVal(prompt_l[m + 1]))]
                ELSE style5
      \* emojis in bullets
      style7 == IF Contains(prompt_l, <<"e","m","o","j","i">>) \/ Contains(prompt_l, <<"e","m","o","j","i","s">>)
                   \/ Contains(prompt_l, <<"s","m","i","l","e","y">>)
                THEN [style6 EXCEPT ![K_emoji_in_bullets] = PyBool(TRUE)] ELSE style6
  IN style7

(* ------------------------------------------------------------------ *)
(* simple_local_summary                                               *)
(* ------------------------------------------------------------------ *)
\* re.sub(r"\s+", " ", text): every maximal run of whitespace becomes one space
CollapseWs(s) ==
  LET keep == {i \in 1..Len(s) : ~IsSpace(s[i]) \/ i = 1 \/ ~IsSpace(s[i - 1])}
  IN [k \in 1..Cardinality(keep) |->
        LET c == s[Pick(keep, k)] IN IF IsSpace(c) THEN " " ELSE c]

\* re.split(r'(?<=[.!?])\s+', s): cut at every whitespace run that follows . ! or ?
RECURSIVE SplitSentences(_)
SplitSentences(s) ==
  LET cuts == {p \in 2..Len(s) : IsSpace(s[p]) /\ s[p - 1] \in {".", "!", "?"}}
  IN IF cuts = {} THEN <<s>>
     ELSE LET p == Least(cuts)
              rest == LStripSet(SubSeq(s, p, Len(s)), {" ", "\n", "\t", "\r"})
          IN <<SubSeq(s, 1, p - 1)>> \o SplitSentences(rest)

\* the length t[:200] keeps
SummaryCut == 200

simple_local_summary(txt, max_sentences) ==
  LET t == Strip(CollapseWs(txt))
      sentences == SplitSentences(t)
      joined == JoinSp(SubSeq(sentences, 1, Min(max_sentences, Len(sentences))))
  IN IF joined # <<>> THEN joined
     ELSE SubSeq(t, 1, Min(SummaryCut, Len(t)))
          \o (IF Len(t) > SummaryCut THEN <<".",".",".">> ELSE <<>>)

(* ------------------------------------------------------------------ *)
(* parse_slides_from_output                                           *)
(* ------------------------------------------------------------------ *)
\* str.splitlines() for the line boundary "\n"
RECURSIVE SplitLines(_)
SplitLines(s) ==
  IF s = <<>> THEN <<>>
  ELSE LET nls == {i \in 1..Len(s) : s[i] = "\n"}
       IN IF nls = {} THEN <<s>>
          ELSE <<SubSeq(s, 1, Least(nls) - 1)>>
               \o SplitLines(SubSeq(s, Least(nls) + 1, Len(s)))

\* the length of the header (?:Slide Title:|Title:) at p of the lower-cased text, 0 if none
HeaderLen(sl, p) ==
  IF StartsAt(sl, p, <<"s","l","i","d","e"," ","t","i","t","l","e",":">>) THEN 12
  ELSE IF StartsAt(sl, p, <<"t","i","t","l","e",":">>) THEN 6
  ELSE 0

\* `$` without re.MULTILINE: the end of the text, or just before its final newline
AtDollar(s, p) == p = Len(s) + 1 \/ (p = Len(s) /\ s[p] = "\n")

\* the end of the line that holds position q: its newline, or Len(s) + 1
LineEnd(s, q) == Least({r \in q..(Len(s) + 1) : r = Len(s) + 1 \/ s[r] = "\n"})

\* Where the group of `\s*(.+?)` or `\s*(.+)` starts when `\s*` starts at h: after
\* the whole whitespace run when a character follows it; when the run reaches the
\* end of the text the regex backtracks to the run's last character that `.`
\* matches (anything but a newline).  0: no match.
TitleStart(s, h) ==
  LET qmax == Least({q \in h..(Len(s) + 1) : q = Len(s) + 1 \/ ~IsSpace(s[q])})
      back == {q \in h..Len(s) : s[q] # "\n"}
  IN IF qmax <= Len(s) THEN qmax
     ELSE IF back = {} THEN 0 ELSE Greatest(back)

\* One match of the structured pattern (line 139) starting at p, or ok = FALSE:
\* its title group, its body group and the position the match ends at.
StructuredMatchAt(s, sl, p) ==
  LET hl == HeaderLen(sl, p)
      q == IF hl = 0 THEN 0 ELSE TitleStart(s, p + hl)
  IN IF q = 0 THEN [ok |-> FALSE]
     ELSE LET r == LineEnd(s, q)
              b == IF r <= Len(s) THEN r + 1 ELSE r
              e == Least({x \in b..(Len(s) + 1) : HeaderLen(sl, x) > 0 \/ AtDollar(s, x)})
          IN [ok |-> TRUE, title |-> Slice(s, q, r), body |-> Slice(s, b, e), end |-> e]

\* pattern.findall(output) from position `from` on: the (title, body) pairs
RECURSIVE StructuredFindAll(_, _, _)
StructuredFindAll(s, sl, from) ==
  LET starts == {p \in from..Len(s) : StructuredMatchAt(s, sl, p).ok}
  IN IF starts = {} THEN <<>>
     ELSE LET m == StructuredMatchAt(s, sl, Least(starts))
          IN <<[title |-> m.title, body |-> m.body]>> \o StructuredFindAll(s, sl, m.end)

\* the bullet glyph U+2022, one character
BulletGlyph == "U+2022"
\* the characters of r'^[-(U+2022)\*\d\)]' and of r'^[-(U+2022)\*\d\)\.]+'
BulletClass == {"-", BulletGlyph, "*", ")"} \cup Range(Digits)
MarkerClass == BulletClass \cup {"."}

\* re.match(r'^[-(U+2022)\*\d\)]\s+', line)
IsBulletLine(line) == Len(line) >= 2 /\ line[1] \in BulletClass /\ IsSpace(line[2])

\* re.sub(r'^[-(U+2022)\*\d\)\.]+\s*', '', line).strip()
StripMarker(line) ==
  IF Len(line) >= 1 /\ line[1] \in MarkerClass
  THEN Strip(LStripSet(LStripSet(line, MarkerClass), {" ", "\n", "\t", "\r"}))
  ELSE Strip(line)

\* lines 145-151: the bullets of one structured body
RECURSIVE StructuredBullets(_)
StructuredBullets(lines) ==
  IF lines = <<>> THEN <<>>
  ELSE LET line == Strip(lines[1])
       IN (IF line # <<>> /\ IsBulletLine(line) THEN <<StripMarker(line)>> ELSE <<>>)
          \o StructuredBullets(Tail(lines))

\* lines 142-156: one slide of the structured strategy
StructuredSlide(m) ==
  LET bullets == StructuredBullets(SplitLines(m.body))
  IN [title |-> Strip(m.title),
      bullets |-> IF bullets = <<>>
                  THEN SplitSentences(simple_local_summary(m.body, 4))
                  ELSE bullets]

\* One match of r'^\s*#\s*(.+)$' (re.MULTILINE) starting at p, or ok = FALSE
MdMatchAt(s, p) ==
  LET hash == Least({q \in p..(Len(s) + 1) : q = Len(s) + 1 \/ ~IsSpace(s[q])})
      q == IF /\ (p = 1 \/ s[p - 1] = "\n")
              /\ hash <= Len(s)
              /\ s[hash] = "#"
           THEN TitleStart(s, hash + 1) ELSE 0
  IN IF q = 0 THEN [ok |-> FALSE]
     ELSE [ok |-> TRUE, title |-> Slice(s, q, LineEnd(s, q)), start |-> p,
           end |-> LineEnd(s, q)]

\* the successive matches of the markdown pattern from position `from` on
RECURSIVE MdFindAll(_, _)
MdFindAll(s, from) ==
  LET starts == {p \in from..Len(s) : MdMatchAt(s, p).ok}
  IN IF starts = {} THEN <<>>
     ELSE LET m == MdMatchAt(s, Least(starts))
          IN <<m>> \o MdFindAll(s, m.end)

\* line 166: the bullets of one markdown body
RECURSIVE MdBullets(_)
MdBullets(lines) ==
  IF lines = <<>> THEN <<>>
  ELSE (IF StartsWith(Strip(lines[1]), <<"-">>)
        THEN <<Strip(LStripSet(Strip(lines[1]), {"-", BulletGlyph, "*", " "}))>> ELSE <<>>)
       \o MdBullets(Tail(lines))

\* lines 164-170: slide i of the markdown strategy; parts[i+1] of re.split is the
\* text between match i and the next match (or the end)
MdSlide(s, ms, i) ==
  LET body == Slice(s, ms[i].end, IF i < Len(ms) THEN ms[i + 1].start ELSE Len(s) + 1)
      bullets == MdBullets(SplitLines(body))
  IN [title |-> Strip(ms[i].title),
      bullets |-> IF bullets = <<>>
                  THEN SplitSentences(simple_local_summary(
                         IF body # <<>> THEN body ELSE ms[i].title, 4))
                  ELSE bullets]

\* chunk_size of line 177 and the title cut title[:60]
ParseChunkSize == 1200
TitleCut == 60

\* a chunking that drops the last, partial chunk
Chunks_DropPartial(txt, size) ==
  [i \in 1..(Len(txt) \div size) |-> SubSeq(txt, (i - 1) * size + 1, i * size)]

\* [text[i:i+size] for i in range(0, len(text), size)]
Chunks(txt, size) ==
  [i \in 1..((Len(txt) + size - 1) \div size) |->
     SubSeq(txt, (i - 1) * size + 1, Min(i * size, Len(txt)))]

\* lines 378-381 and 180-183: the slide made from one chunk by the local summarizer;
\* re.split never returns an empty list, so the placeholder title is never taken
ChunkSlide(ch, placeholder) ==
  LET bullets == SplitSentences(simple_local_summary(ch, 4))
      title == IF bullets # <<>> THEN bullets[1] ELSE placeholder
  IN [title |-> SubSeq(title, 1, Min(TitleCut, Len(title))), bullets |-> bullets]

parse_slides_from_output(output) ==
  LET matches == StructuredFindAll(output, Lower(output), 1)
      md_matches == MdFindAll(output, 1)
      cleaned == Strip(CollapseWs(output))
      chunks == Chunks(cleaned, ParseChunkSize)
  IN IF matches # <<>>
     THEN [i \in 1..Len(matches) |-> StructuredSlide(matches[i])]
     ELSE IF md_matches # <<>>
     THEN [i \in 1..Len(md_matches) |-> MdSlide(output, md_matches, i)]
     ELSE IF cleaned = <<>> THEN <<>>
     ELSE [i \in 1..Len(chunks) |-> ChunkSlide(chunks[i], <<"P","a","r","t">>)]

(* ------------------------------------------------------------------ *)
(* json.loads                                                         *)
(* ------------------------------------------------------------------ *)
PyFloat(lexeme) == [t |-> "float", v |-> lexeme]
JsonFail == [ok |-> FALSE]
JsonOk(val, end) == [ok |-> TRUE, val |-> val, end |-> end]
CharAt(s, p) == IF p >= 1 /\ p <= Len(s) THEN s[p] ELSE "EOF"

\* json's WHITESPACE.match(s, p).end()
SkipWs(s, p) ==
  Least({q \in p..(Len(s) + 1) : q = Len(s) + 1 \/ s[q] \notin {" ", "\t", "\n", "\r"}})

\* the end of the run of digits that starts at p (p itself when none)
DigitsEnd(s, p) == Least({q \in p..(Len(s) + 1) : q = Len(s) + 1 \/ ~IsDigit(s[q])})

RECURSIVE DigitsVal(_)
DigitsVal(ds) ==
  IF ds = <<>> THEN 0 ELSE 10 * DigitsVal(SubSeq(ds, 1, Len(ds) - 1)) + DigitVal(ds[Len(ds)])

\* NUMBER_RE: (-?(?:0|[1-9]\d*))(\.\d+)?([eE][-+]?\d+)?
JsonNumber(s, p) ==
  LET d == IF CharAt(s, p) = "-" THEN p + 1 ELSE p
      ie == IF CharAt(s, d) = "0" THEN d + 1 ELSE DigitsEnd(s, d)
      fe == IF CharAt(s, ie) = "." /\ DigitsEnd(s, ie + 1) > ie + 1
            THEN DigitsEnd(s, ie + 1) ELSE ie
      xs == IF CharAt(s, fe + 1) \in {"+", "-"} THEN fe + 2 ELSE fe + 1
      xe == IF CharAt(s, fe) \in {"e", "E"} /\ DigitsEnd(s, xs) > xs
            THEN DigitsEnd(s, xs) ELSE fe
  IN IF ie = d THEN JsonFail
     ELSE IF xe = ie
          THEN JsonOk(PyInt((IF d = p THEN 1 ELSE -1) * DigitsVal(Slice(s, d, ie))), ie)
          ELSE JsonOk(PyFloat(Slice(s, p, xe)), xe)

\* the simple escapes of a JSON string: what follows the backslash, and its character
JsonEscapes == ("\"" :> "\"") @@ ("\\" :> "\\") @@ ("/" :> "/") @@ ("n" :> "\n")
               @@ ("t" :> "\t") @@ ("r" :> "\r")

\* the number of backslashes immediately before position i, not before position p
BackslashesBefore(s, p, i) ==
  i - 1 - Greatest({p - 1} \cup {j \in p..(i - 1) : s[j] # "\\"})

\* scanstring (strict): p is just after the opening quote.  The string ends at the
\* first quote that no backslash escapes; a control character or an unknown escape
\* inside it raises.
JsonString(s, p) ==
  LET quotes == {q \in p..Len(s) : s[q] = "\"" /\ BackslashesBefore(s, p, q) % 2 = 0}
      q == Least(quotes)
      esc == {i \in p..(q - 1) : s[i] = "\\" /\ BackslashesBefore(s, p, i) % 2 = 0}
      keep == (p..(q - 1)) \ esc
  IN IF quotes = {} THEN JsonFail
     ELSE IF \E i \in p..(q - 1) : s[i] \in {"\n", "\t", "\r"} THEN JsonFail
     ELSE IF \E i \in esc : s[i + 1] \notin DOMAIN JsonEscapes THEN JsonFail
     ELSE JsonOk(PyStr([k \in 1..Cardinality(keep) |->
                    LET i == Pick(keep, k)
                    IN IF (i - 1) \in esc THEN JsonEscapes[s[i]] ELSE s[i]]), q + 1)

RECURSIVE JsonValue(_, _)
RECURSIVE JsonMembers(_, _, _)
RECURSIVE JsonElements(_, _, _)

\* scan_once(s, p): one JSON value starting exactly at p
JsonValue(s, p) ==
  LET c == CharAt(s, p)
  IN CASE c = "\"" -> JsonString(s, p + 1)
       [] c = "{" ->
            IF CharAt(s, SkipWs(s, p + 1)) = "}"
            THEN JsonOk(PyDict(<<>>), SkipWs(s, p + 1) + 1)
            ELSE JsonMembers(s, SkipWs(s, p + 1), <<>>)
       [] c = "[" ->
            IF CharAt(s, SkipWs(s, p + 1)) = "]"
            THEN JsonOk(PyList(<<>>), SkipWs(s, p + 1) + 1)
            ELSE JsonElements(s, SkipWs(s, p + 1), <<>>)
       [] c = "n" /\ StartsAt(s, p, <<"n","u","l","l">>) -> JsonOk(PyNone, p + 4)
       [] c = "t" /\ StartsAt(s, p, <<"t","r","u","e">>) -> JsonOk(PyBool(TRUE), p + 4)
       [] c = "f" /\ StartsAt(s, p, <<"f","a","l","s","e">>) -> JsonOk(PyBool(FALSE), p + 5)
       [] c = "N" /\ StartsAt(s, p, <<"N","a","N">>) -> JsonOk(PyFloat(<<"N","a","N">>), p + 3)
       [] c = "I" /\ StartsAt(s, p, <<"I","n","f","i","n","i","t","y">>) -> JsonOk(PyFloat(<<"I","n","f","i","n","i","t","y">>), p + 8)
       [] c = "-" /\ StartsAt(s, p, <<"-","I","n","f","i","n","i","t","y">>) -> JsonOk(PyFloat(<<"-","I","n","f","i","n","i","t","y">>), p + 9)
       [] OTHER -> JsonNumber(s, p)

\* JSONObject: the pairs of an object, p at the first key; a later key overrides
JsonMembers(s, p, f) ==
  IF CharAt(s, p) # "\"" THEN JsonFail
  ELSE LET k == JsonString(s, p + 1)
       IN IF ~k.ok THEN JsonFail
          ELSE LET colon == SkipWs(s, k.end)
               IN IF CharAt(s, colon) # ":" THEN JsonFail
                  ELSE LET v == JsonValue(s, SkipWs(s, colon + 1))
                       IN IF ~v.ok THEN JsonFail
                          ELSE LET g == (k.val.v :> v.val) @@ f
                                   nx == SkipWs(s, v.end)
                               IN IF CharAt(s, nx) = "}" THEN JsonOk(PyDict(g), nx + 1)
                                  ELSE IF CharAt(s, nx) = ","
                                       THEN JsonMembers(s, SkipWs(s, nx + 1), g)
                                       ELSE JsonFail

\* JSONArray: the elements of an array, p at the first element
JsonElements(s, p, acc) ==
  LET v == JsonValue(s, p)
  IN IF ~v.ok THEN JsonFail
     ELSE LET nx == SkipWs(s, v.end)
          IN IF CharAt(s, nx) = "]" THEN JsonOk(PyList(Append(acc, v.val)), nx + 1)
             ELSE IF CharAt(s, nx) = ","
                  THEN JsonElements(s, SkipWs(s, nx + 1), Append(acc, v.val))
                  ELSE JsonFail

\* json.loads(s): the decoded value, or JSONDecodeError when it raises
json_loads(s) ==
  LET v == JsonValue(s, SkipWs(s, 1))
  IN IF v.ok /\ SkipWs(s, v.end) = Len(s) + 1 THEN v.val ELSE JSONDecodeError

(* ------------------------------------------------------------------ *)
(* extract_style_json_from_text                                       *)
(* ------------------------------------------------------------------ *)
OpenTag == <<"<","s","t","y","l","e","_","j","s","o","n",">">>
CloseTag == <<"<","/","s","t","y","l","e","_","j","s","o","n",">">>

\* re.search(r'<STYLE_JSON>(.*?)</STYLE_JSON>', s, DOTALL | IGNORECASE): the group
\* of the leftmost match (the first opening tag, up to the first closing tag after it)
TaggedBlock(s) ==
  LET sl == Lower(s)
      opens == {p \in 1..Len(s) : StartsAt(sl, p, OpenTag)}
      closes == IF opens = {} THEN {}
                ELSE {c \in (Least(opens) + Len(OpenTag))..Len(s) : StartsAt(sl, c, CloseTag)}
  IN IF closes = {} THEN [found |-> FALSE]
     ELSE [found |-> TRUE, group |-> Slice(s, Least(opens) + Len(OpenTag), Least(closes))]

\* the nesting depth after s[start..e]: its "{" minus its "}"
Depth(s, start, e) ==
  Cardinality({i \in start..e : s[i] = "{"}) - Cardinality({i \in start..e : s[i] = "}"})

\* a scan that ends with an empty style instead of None
RECURSIVE LastBalanced_EmptyDict(_, _)
LastBalanced_EmptyDict(s, starts) ==
  IF starts = {} THEN PyDict(<<>>)
  ELSE LET start == Greatest(starts)
           ends == {e \in start..Len(s) : Depth(s, start, e) = 0}
           r == json_loads(Slice(s, start, Least(ends) + 1))
       IN IF ends # {} /\ r # JSONDecodeError THEN r
          ELSE LastBalanced_EmptyDict(s, starts \ {start})

\* lines 120-134: the loop over start = len(s)-1 .. 0, as a loop over the
\* positions of "{" from the last one down; `starts` are those still to visit
RECURSIVE LastBalanced(_, _)
LastBalanced(s, starts) ==
  IF starts = {} THEN PyNone
  ELSE LET start == Greatest(starts)
           ends == {e \in start..Len(s) : Depth(s, start, e) = 0}
           r == json_loads(Slice(s, start, Least(ends) + 1))
       IN IF ends # {} /\ r # JSONDecodeError THEN r
          ELSE LastBalanced(s, starts \ {start})

extract_style_json_from_text(s) ==
  LET m == TaggedBlock(s)
      tagged == IF m.found THEN json_loads(Strip(m.group)) ELSE JSONDecodeError
  IN IF m.found /\ tagged # JSONDecodeError THEN tagged
     ELSE LastBalanced(s, {p \in 1..Len(s) : s[p] = "{"})

(* ------------------------------------------------------------------ *)
(* make_ppt                                                           *)
(* ------------------------------------------------------------------ *)
\* style.get(key, default)
DictGet(style, key, default) == IF key \in DOMAIN style THEN style[key] ELSE default

\* lines 255-258: int(style.get("font_size", 14)), 14 when int() raises
FontSizeOf(style) ==
  LET x == DictGet(style, K_font_size, PyInt(DefaultFontSize))
  IN CASE x.t = "int" -> x.v
       [] x.t = "bool" -> IF x.v THEN 1 ELSE 0
       [] x.t = "str" ->
            IF Strip(x.v) # <<>> /\ \A i \in 1..Len(Strip(x.v)) : IsDigit(Strip(x.v)[i])
            THEN DigitsVal(Strip(x.v)) ELSE DefaultFontSize
       [] x.t \in {"none", "dict", "list"} -> DefaultFontSize

\* title[:250] of line 285
PptTitleCut == 250

\* lines 250-319: the deck, as what it is built from: one content slide per slide
\* record, with the resolved background, font, size, colour and bullet prefix
make_ppt(slide_list, style) ==
  [ background |-> DictGet(style, K_background_color, PyStr(<<"#","F","F","F","F","F","F">>)),
    font |-> DictGet(style, K_font, PyStr(<<"A","r","i","a","l">>)),
    font_size |-> FontSizeOf(style),
    font_color |-> DictGet(style, K_font_color, PyStr(<<"#","0","0","0","0","0","0">>)),
    content |-> [i \in 1..Len(slide_list) |->
                  [title |-> SubSeq(slide_list[i].title, 1,
                                    Min(PptTitleCut, Len(slide_list[i].title))),
                   bullets |-> [j \in 1..Len(slide_list[i].bullets) |->
                     IF Truthy(DictGet(style, K_emoji_in_bullets, PyBool(FALSE)))
                     THEN <<BulletGlyph, " ">> \o slide_list[i].bullets[j]
                     ELSE slide_list[i].bullets[j]]]] ]

(* ------------------------------------------------------------------ *)
(* Inputs                                                             *)
(* ------------------------------------------------------------------ *)
\* the sequences of at most n elements of the set P
SeqsUpTo(P, n) == UNION {[1..k -> P] : k \in 0..n}

MaxFiles == 2
MaxPromptParts == 2
MaxJsonParts == 3
MaxSlideParts == 3

BluePrompt == <<"b","l","u","e"," ","b","a","c","k","g","r","o","u","n","d",","," ","C","a","l","i","b","r","i",","," ","l","a","r","g","e"," ","f","o","n","t">>
FourSentences == <<"O","n","e","."," ","T","w","o","."," ","T","h","r","e","e","."," ","F","o","u","r",".">>

\* the third example prompt the page shows (line 335)
ExamplePrompt == <<"D","a","r","k"," ","t","h","e","m","e"," ","(","#","0","f","1","7","2","a",")",","," ","S","a","n","s","-","s","e","r","i","f",","," ","f","o","n","t"," ","s","i","z","e"," ","1","8",","," ","y","e","l","l","o","w"," ","b","u","l","l","e","t"," ","p","o","i","n","t","s">>

DesignPrompts == {BluePrompt, ExamplePrompt, <<>>}

\* uploaded files: a name and the text their bytes decode to
Documents == { [name |-> <<"a",".","t","x","t">>, data |-> FourSentences],
               [name |-> <<"b",".","t","x","t">>, data |-> <<" ","\n">>],
               [name |-> <<"c",".","t","x","t">>, data |-> <<"H","e","l","l","o"," ","w","o","r","l","d","\n">>] }

TwoSlides == <<"S","l","i","d","e"," ","T","i","t","l","e",":"," ","A","\n","-"," ","x","\n","-"," ","y","\n","S","l","i","d","e"," ","T","i","t","l","e",":"," ","B","\n","-"," ","z">>

\* what the remote model may answer
RawOutputs == {
  TwoSlides,
  <<"S","l","i","d","e"," ","T","i","t","l","e",":"," ","A","\n","-"," ","x","\n","<","S","T","Y","L","E","_","J","S","O","N",">","{","\"","f","o","n","t","\"",":"," ","\"","V","e","r","d","a","n","a","\"",","," ","\"","f","o","n","t","_","s","i","z","e","\"",":"," ","1","8","}","<","/","S","T","Y","L","E","_","J","S","O","N",">">>,
  <<"T","i","t","l","e",":"," ","C","\n","-"," ","u","\n","<","S","T","Y","L","E","_","J","S","O","N",">","{","\"","f","o","n","t","\"",":"," ","n","u","l","l","}","<","/","S","T","Y","L","E","_","J","S","O","N",">">>,
  <<"#"," ","M","\n","-"," ","v","\n","<","S","T","Y","L","E","_","J","S","O","N",">","[","1","]","<","/","S","T","Y","L","E","_","J","S","O","N",">">>,
  <<"S","l","i","d","e"," ","T","i","t","l","e",":"," ">>,
  <<" ","\n">>,
  <<"S","o","m","e"," ","p","r","o","s","e","."," ","M","o","r","e"," ","p","r","o","s","e"," ","{","\"","f","o","n","t","\"",":"," ","\"","H","e","l","v","e","t","i","c","a","\"","}">> }

PromptParts == { <<"#","A","1","b","2","C","3">>, <<"b","l","u","e">>, <<"d","a","r","k">>, <<"l","i","g","h","t">>, <<"r","e","d">>, <<" ">>, <<"C","a","l","i","b","r","i">>,
                 <<"l","a","r","g","e">>, <<"f","o","n","t"," ","s","i","z","e"," ","1","8">> }
Prompts == {Concat(q) : q \in SeqsUpTo(PromptParts, MaxPromptParts)} \cup DesignPrompts

JsonParts == { <<"{","\"","a","\"",":"," ">>, <<"{","\"","b","\"",":"," ","1","}">>, <<"}">>, <<"{">>, <<"<","S","T","Y","L","E","_","J","S","O","N",">">>, <<"<","/","S","T","Y","L","E","_","J","S","O","N",">">>,
               <<"x">> }
JsonTexts == {Concat(q) : q \in SeqsUpTo(JsonParts, MaxJsonParts)}

SlideParts == { <<"S","l","i","d","e"," ","T","i","t","l","e",":"," ","A","\n">>, <<"T","i","t","l","e",":"," ","B","\n">>, <<"-"," ","x","\n">>, <<"1","."," ","y","\n">>, <<"#"," ","M","\n">>,
                <<"O","n","e","."," ","T","w","o",".">>, <<"H","e","l","l","o">>, <<" ">>, <<"\n">> }
SlideTexts == {Concat(q) : q \in SeqsUpTo(SlideParts, MaxSlideParts)} \cup {TwoSlides}

(* ------------------------------------------------------------------ *)
(* State                                                              *)
(* ------------------------------------------------------------------ *)
VARIABLES
  pc,             \* where the "Generate PPT" handler is
  design_prompt,  \* the text area's content
  files,          \* the uploaded files
  idx,            \* the file the loop `for f in files` is at (1-based)
  text,           \* extract_text(f) of the current file
  raw,            \* the model's answer for the current file
  slides,         \* ... and what summarize_and_style_with_groq returned for it
  style_json,
  used,
  all_slides,     \* the accumulated slide list
  global_style,   \* the style being built
  any_groq_used,
  groq_errors,    \* the names of the files the model call failed for
  ppt,            \* what make_ppt was called with and returned
  outcomes,       \* history: per file handled: "skipped", "groq", "local" or "failed"
  doc_slides,     \* history: per file handled, the slides appended for it
  json_history,   \* history: the style_json of every successful call
  fn_pc,          \* a single call of one parser: "call", then "ret"
  fn_arg,
  fn_ret

vars == << pc, design_prompt, files, idx, text, raw, slides, style_json, used,
           all_slides, global_style, any_groq_used, groq_errors, ppt, outcomes,
           doc_slides, json_history, fn_pc, fn_arg, fn_ret >>

handler_vars == << pc, design_prompt, files, idx, text, raw, slides, style_json, used,
                   all_slides, global_style, any_groq_used, groq_errors, ppt, outcomes,
                   doc_slides, json_history >>
fn_vars == << fn_pc, fn_arg, fn_ret >>

\* the handler before "Generate PPT" is clicked
HandlerIdle(p, fs) ==
  /\ pc = "ready"
  /\ design_prompt = p
  /\ files = fs
  /\ idx = 0
  /\ text = <<>>
  /\ raw = <<>>
  /\ slides = <<>>
  /\ style_json = PyNone
  /\ used = FALSE
  /\ all_slides = <<>>
  /\ global_style = <<>>
  /\ any_groq_used = FALSE
  /\ groq_errors = <<>>
  /\ ppt = PyNone
  /\ outcomes = <<>>
  /\ doc_slides = <<>>
  /\ json_history = <<>>

FnIdle == fn_pc = "idle" /\ fn_arg = <<>> /\ fn_ret = PyNone

(* ------------------------------------------------------------------ *)
(* The "Generate PPT" handler (lines 343-414)                         *)
(* ------------------------------------------------------------------ *)
\* extract_text for a text file: decode and strip
extract_text(f) == Strip(f.data)

\* lines 362-369: style_json's items override; a value without .items() raises
\* before anything is assigned, and the exception is swallowed
MergeStyleJson(gs, sj) ==
  IF Truthy(sj) /\ sj.t = "dict"
  THEN [k \in DOMAIN gs \cup DOMAIN sj.v |-> IF k \in DOMAIN sj.v THEN sj.v[k] ELSE gs[k]]
  ELSE gs

\* a re-merge that lets the parsed prompt overwrite every key
MergeParsedPrompt_Overwrite(gs, parsed) ==
  [k \in DOMAIN gs \cup DOMAIN parsed |-> IF k \in DOMAIN parsed THEN parsed[k] ELSE gs[k]]

\* lines 397-401: fill the keys that are missing or None from the parsed prompt
MergeParsedPrompt(gs, parsed) ==
  [k \in DOMAIN gs \cup DOMAIN parsed |->
     IF k \in DOMAIN parsed /\ (k \notin DOMAIN gs \/ gs[k] = PyNone)
     THEN parsed[k] ELSE gs[k]]

\* chunk_size of line 375
FallbackChunkSize == 1800

\* lines 375-381: the slides of the local summarizer when the model call failed
FallbackSlides(f, t) ==
  LET chunks == Chunks(t, FallbackChunkSize)
  IN [i \in 1..Len(chunks) |-> ChunkSlide(chunks[i], f.name \o <<" ","-"," ","P","a","r","t">>)]

\* lines 385-392: the slides appended after a successful call
UsedSlides(f, t, sl) ==
  IF sl # <<>> THEN sl ELSE <<ChunkSlide(t, f.name)>>

\* lines 343-349
ClickGenerate ==
  /\ pc = "ready"
  /\ files # <<>>
  /\ all_slides' = <<>>
  /\ global_style' = parse_design_prompt(design_prompt)
  /\ any_groq_used' = FALSE
  /\ groq_errors' = <<>>
  /\ idx' = 1
  /\ pc' = "loop"
  /\ UNCHANGED << design_prompt, files, text, raw, slides, style_json, used, ppt,
                  outcomes, doc_slides, json_history, fn_vars >>

\* lines 351-356, text empty: warn and continue with the next file
SkipFile ==
  /\ pc = "loop"
  /\ idx <= Len(files)
  /\ extract_text(files[idx]) = <<>>
  /\ text' = <<>>
  /\ idx' = idx + 1
  /\ outcomes' = Append(outcomes, "skipped")
  /\ doc_slides' = Append(doc_slides, <<>>)
  /\ UNCHANGED << pc, design_prompt, files, raw, slides, style_json, used, all_slides,
                  global_style, any_groq_used, groq_errors, ppt, json_history, fn_vars >>

\* lines 351-358, text present: call summarize_and_style_with_groq
ReadFile ==
  /\ pc = "loop"
  /\ idx <= Len(files)
  /\ extract_text(files[idx]) # <<>>
  /\ text' = extract_text(files[idx])
  /\ pc' = "call"
  /\ UNCHANGED << design_prompt, files, idx, raw, slides, style_json, used, all_slides,
                  global_style, any_groq_used, groq_errors, ppt, outcomes, doc_slides,
                  json_history, fn_vars >>

\* lines 216-227: the model answers
GroqSucceeds ==
  /\ pc = "call"
  /\ \E r \in RawOutputs :
       /\ raw' = r
       /\ slides' = parse_slides_from_output(r)
       /\ style_json' = extract_style_json_from_text(r)
  /\ used' = TRUE
  /\ pc' = "handle"
  /\ UNCHANGED << design_prompt, files, idx, text, all_slides, global_style,
                  any_groq_used, groq_errors, ppt, outcomes, doc_slides, json_history,
                  fn_vars >>

\* lines 228-229: the call (or the parsing of its answer) raised
GroqFails ==
  /\ pc = "call"
  /\ raw' = <<>>
  /\ slides' = <<>>
  /\ style_json' = PyNone
  /\ used' = FALSE
  /\ pc' = "handle"
  /\ UNCHANGED << design_prompt, files, idx, text, all_slides, global_style,
                  any_groq_used, groq_errors, ppt, outcomes, doc_slides, json_history,
                  fn_vars >>

\* a handler that puts a file's slides in front of the accumulated ones
HandleUsed_Prepend ==
  /\ pc = "handle"
  /\ used
  /\ any_groq_used' = TRUE
  /\ global_style' = MergeStyleJson(global_style, style_json)
  /\ all_slides' = UsedSlides(files[idx], text, slides) \o all_slides
  /\ doc_slides' = Append(doc_slides, UsedSlides(files[idx], text, slides))
  /\ outcomes' = Append(outcomes, IF slides # <<>> THEN "groq" ELSE "local")
  /\ json_history' = Append(json_history, style_json)
  /\ idx' = idx + 1
  /\ pc' = "loop"
  /\ UNCHANGED << design_prompt, files, text, raw, slides, style_json, used,
                  groq_errors, ppt, fn_vars >>

\* lines 359-369 and 384-392
HandleUsed ==
  /\ pc = "handle"
  /\ used
  /\ any_groq_used' = TRUE
  /\ global_style' = MergeStyleJson(global_style, style_json)
  /\ all_slides' = all_slides \o UsedSlides(files[idx], text, slides)
  /\ doc_slides' = Append(doc_slides, UsedSlides(files[idx], text, slides))
  /\ outcomes' = Append(outcomes, IF slides # <<>> THEN "groq" ELSE "local")
  /\ json_history' = Append(json_history, style_json)
  /\ idx' = idx + 1
  /\ pc' = "loop"
  /\ UNCHANGED << design_prompt, files, text, raw, slides, style_json, used,
                  groq_errors, ppt, fn_vars >>

\* a handler that leaves the loop (break) after a failed call
HandleFailed_Break ==
  /\ pc = "handle"
  /\ ~used
  /\ groq_errors' = Append(groq_errors, files[idx].name)
  /\ all_slides' = all_slides \o FallbackSlides(files[idx], text)
  /\ doc_slides' = Append(doc_slides, FallbackSlides(files[idx], text))
  /\ outcomes' = Append(outcomes, "failed")
  /\ idx' = Len(files) + 1
  /\ pc' = "loop"
  /\ UNCHANGED << design_prompt, files, text, raw, slides, style_json, used,
                  global_style, any_groq_used, ppt, json_history, fn_vars >>

\* lines 370-382
HandleFailed ==
  /\ pc = "handle"
  /\ ~used
  /\ groq_errors' = Append(groq_errors, files[idx].name)
  /\ all_slides' = all_slides \o FallbackSlides(files[idx], text)
  /\ doc_slides' = Append(doc_slides, FallbackSlides(files[idx], text))
  /\ outcomes' = Append(outcomes, "failed")
  /\ idx' = idx + 1
  /\ pc' = "loop"
  /\ UNCHANGED << design_prompt, files, text, raw, slides, style_json, used,
                  global_style, any_groq_used, ppt, json_history, fn_vars >>

\* lines 397-401: the loop is over, merge the parsed prompt
MergePrompt ==
  /\ pc = "loop"
  /\ idx > Len(files)
  /\ global_style' = MergeParsedPrompt(global_style, parse_design_prompt(design_prompt))
  /\ pc' = "result"
  /\ UNCHANGED << design_prompt, files, idx, text, raw, slides, style_json, used,
                  all_slides, any_groq_used, groq_errors, ppt, outcomes, doc_slides,
                  json_history, fn_vars >>

\* lines 403-404
ShowError ==
  /\ pc = "result"
  /\ all_slides = <<>>
  /\ pc' = "error"
  /\ UNCHANGED << design_prompt, files, idx, text, raw, slides, style_json, used,
                  all_slides, global_style, any_groq_used, groq_errors, ppt, outcomes,
                  doc_slides, json_history, fn_vars >>

\* lines 405-409
MakePpt ==
  /\ pc = "result"
  /\ all_slides # <<>>
  /\ ppt' = [slides |-> all_slides, style |-> global_style,
             deck |-> make_ppt(all_slides, global_style)]
  /\ pc' = "done"
  /\ UNCHANGED << design_prompt, files, idx, text, raw, slides, style_json, used,
                  all_slides, global_style, any_groq_used, groq_errors, outcomes,
                  doc_slides, json_history, fn_vars >>

Init ==
  /\ \E p \in DesignPrompts, fs \in SeqsUpTo(Documents, MaxFiles) :
       fs # <<>> /\ HandlerIdle(p, fs)
  /\ FnIdle

Next ==
  \/ ClickGenerate
  \/ SkipFile
  \/ ReadFile
  \/ GroqSucceeds
  \/ GroqFails
  \/ HandleUsed
  \/ HandleFailed
  \/ MergePrompt
  \/ ShowError
  \/ MakePpt

Spec == Init /\ [][Next]_vars

(* ------------------------------------------------------------------ *)
(* Single calls of the three parsers                                  *)
(* ------------------------------------------------------------------ *)
CallParseDesignPrompt ==
  /\ fn_pc = "call"
  /\ fn_ret' = parse_design_prompt(fn_arg)
  /\ fn_pc' = "ret"
  /\ UNCHANGED << fn_arg, handler_vars >>

CallExtractStyleJson ==
  /\ fn_pc = "call"
  /\ fn_ret' = extract_style_json_from_text(fn_arg)
  /\ fn_pc' = "ret"
  /\ UNCHANGED << fn_arg, handler_vars >>

CallParseSlides ==
  /\ fn_pc = "call"
  /\ fn_ret' = parse_slides_from_output(fn_arg)
  /\ fn_pc' = "ret"
  /\ UNCHANGED << fn_arg, handler_vars >>

FnInit(args) ==
  /\ HandlerIdle(<<>>, <<>>)
  /\ fn_pc = "call"
  /\ fn_arg \in args
  /\ fn_ret = PyNone

SpecPrompt == FnInit(Prompts) /\ [][CallParseDesignPrompt]_vars
SpecJson == FnInit(JsonTexts) /\ [][CallExtractStyleJson]_vars
SpecSlides == FnInit(SlideTexts) /\ [][CallParseSlides]_vars

(* ------------------------------------------------------------------ *)
(* Properties of parse_design_prompt                                  *)
(* ------------------------------------------------------------------ *)
\* the #RRGGBB tokens that occur in a prompt
HexTokens(prompt) ==
  { SubSeq(prompt, p, p + 6) :
      p \in {x \in 1..(Len(prompt) - 6) :
               prompt[x] = "#" /\ \A j \in 1..6 : IsHex(prompt[x + j])} }

\* C1: for every prompt that holds a literal #RRGGBB token, the returned
\* background_color is that token, whatever colour words the prompt also holds.
C1_HexTokenWins ==
  (fn_pc = "ret" /\ HexTokens(fn_arg) # {})
    => fn_ret[K_background_color] \in {PyStr(tok) : tok \in HexTokens(fn_arg)}

(* ------------------------------------------------------------------ *)
(* Properties of extract_style_json_from_text                         *)
(* ------------------------------------------------------------------ *)
\* s[i..j] is a balanced "{...}": it opens at i and first closes at j
Balanced(s, i, j) ==
  /\ i < j
  /\ s[i] = "{"
  /\ s[j] = "}"
  /\ Depth(s, i, j) = 0
  /\ \A e \in i..(j - 1) : Depth(s, i, e) > 0
BalancedPairs(s) == {ij \in (1..Len(s)) \X (1..Len(s)) : Balanced(s, ij[1], ij[2])}
\* the balanced pairs that no other balanced pair encloses
TopLevelPairs(s) ==
  {ij \in BalancedPairs(s) :
     ~\E kl \in BalancedPairs(s) : kl[1] < ij[1] /\ ij[2] < kl[2]}

\* the text holds an opening tag and, after it, a closing tag
HasTaggedBlock(s) ==
  \E p \in 1..Len(s), c \in 1..Len(s) :
    /\ StartsAtI(s, p, OpenTag)
    /\ StartsAtI(s, c, CloseTag)
    /\ c >= p + Len(OpenTag)

\* C4: for every text with neither a tagged block nor a balanced "{...}" pair the
\* extractor returns None, not an empty object.
C4_NoneWithoutBlock ==
  (fn_pc = "ret" /\ ~HasTaggedBlock(fn_arg) /\ BalancedPairs(fn_arg) = {})
    => fn_ret = PyNone

\* C4's case: a text with braces, none of them balanced, was given and None returned
C4_Witness ==
  /\ fn_pc = "ret"
  /\ ~HasTaggedBlock(fn_arg)
  /\ BalancedPairs(fn_arg) = {}
  /\ "{" \in Range(fn_arg)
  /\ "}" \in Range(fn_arg)
  /\ fn_ret = PyNone

\* C10: with no tagged block, when the last top-level balanced pair of the text
\* decodes, the extractor returns the decoding of that whole pair, also when it
\* holds a nested object.
C10_LastTopLevelObject ==
  (fn_pc = "ret" /\ ~HasTaggedBlock(fn_arg) /\ TopLevelPairs(fn_arg) # {})
    => LET last == CHOOSE ij \in TopLevelPairs(fn_arg) :
                     \A kl \in TopLevelPairs(fn_arg) : kl[2] <= ij[2]
           whole == json_loads(Slice(fn_arg, last[1], last[2] + 1))
       IN whole # JSONDecodeError => fn_ret = whole

(* ------------------------------------------------------------------ *)
(* Properties of parse_slides_from_output                             *)
(* ------------------------------------------------------------------ *)
\* a line "Slide Title: <text>" or "Title: <text>": the length of its header, else 0
HeaderOfLine(l) ==
  IF StartsAtI(l, 1, <<"S","l","i","d","e"," ","T","i","t","l","e",":">>) THEN 12
  ELSE IF StartsAtI(l, 1, <<"T","i","t","l","e",":">>) THEN 6 ELSE 0
IsHeaderLine(l) ==
  HeaderOfLine(l) > 0 /\ Strip(SubSeq(l, HeaderOfLine(l) + 1, Len(l))) # <<>>
HeaderText(l) == Strip(SubSeq(l, HeaderOfLine(l) + 1, Len(l)))

\* a line that starts with a bullet marker: a dash, the bullet glyph, an asterisk
\* or a numbered-list marker ("1." or "1)"), then a space: the marker's length, else 0
MarkerOfLine(l) ==
  IF Len(l) >= 2 /\ l[1] \in {"-", BulletGlyph, "*"} /\ l[2] = " " THEN 2
  ELSE IF Len(l) >= 3 /\ IsDigit(l[1]) /\ l[2] \in {".", ")"} /\ l[3] = " " THEN 3
  ELSE 0
IsMarkedLine(l) ==
  MarkerOfLine(l) > 0 /\ Strip(SubSeq(l, MarkerOfLine(l) + 1, Len(l))) # <<>>
MarkedText(l) == Strip(SubSeq(l, MarkerOfLine(l) + 1, Len(l)))

\* model output made of headers, each followed by one or more bullet lines
HeadersWithBullets(s) ==
  LET ls == SplitLines(s)
  IN /\ Len(ls) >= 2
     /\ IsHeaderLine(ls[1])
     /\ \A i \in 1..Len(ls) : IsHeaderLine(ls[i]) \/ IsMarkedLine(ls[i])
     /\ \A i \in 1..Len(ls) :
          IsHeaderLine(ls[i]) => (i < Len(ls) /\ ~IsHeaderLine(ls[i + 1]))

\* the slides such output describes: per header, its text and its bullet lines
ExpectedSlides(s) ==
  LET ls == SplitLines(s)
      hs == {i \in 1..Len(ls) : IsHeaderLine(ls[i])}
      last(k) == IF k < Cardinality(hs) THEN Pick(hs, k + 1) - 1 ELSE Len(ls)
  IN [k \in 1..Cardinality(hs) |->
        [title |-> HeaderText(ls[Pick(hs, k)]),
         bullets |-> [j \in 1..(last(k) - Pick(hs, k)) |->
                        MarkedText(ls[Pick(hs, k) + j])]]]

\* C2: for output made of k >= 1 headers, each followed by bullet lines, the parser
\* returns exactly the k slides in order, with the marker stripped from each bullet.
C2_HeadersAndBullets ==
  (fn_pc = "ret" /\ HeadersWithBullets(fn_arg)) => fn_ret = ExpectedSlides(fn_arg)

\* no header, no "#" heading line and no line that starts with a bullet marker
Unstructured(s) ==
  /\ ~Contains(Lower(s), <<"t","i","t","l","e",":">>)
  /\ \A i \in 1..Len(SplitLines(s)) :
       LET l == Strip(SplitLines(s)[i])
       IN l = <<>> \/ l[1] \notin ({"#"} \cup BulletClass)

JsonWith(k) ==
  {i \in 1..Len(json_history) : json_history[i].t = "dict" /\ k \in DOMAIN json_history[i].v}
LastJsonValue(k) == json_history[Greatest(JsonWith(k))].v[k]

\* C3 as stated: for every key of the prompt-derived style that a style JSON of a
\* successful answer holds, make_ppt gets the JSON value.
C3_JsonWins ==
  pc = "done" =>
    \A k \in DOMAIN parse_design_prompt(design_prompt) :
      JsonWith(k) # {} => ppt.style[k] = LastJsonValue(k)

\* C3 as amended: ... make_ppt gets the value of the last such JSON, unless that
\* value is null: then it gets the prompt-derived value.
C3_JsonWinsUnlessNull ==
  pc = "done" =>
    \A k \in DOMAIN parse_design_prompt(design_prompt) :
      JsonWith(k) # {} =>
        ppt.style[k] = IF LastJsonValue(k) # PyNone THEN LastJsonValue(k)
                       ELSE parse_design_prompt(design_prompt)[k]

\* C3's case: a JSON font that differs from the prompt's font reached make_ppt
C3_Witness ==
  /\ pc = "done"
  /\ JsonWith(K_font) # {}
  /\ LastJsonValue(K_font) # PyNone
  /\ LastJsonValue(K_font) # parse_design_prompt(design_prompt)[K_font]
  /\ ppt.style[K_font] = LastJsonValue(K_font)

\* C6: every slide record produced in a run has a non-empty title.
C6_TitlesNonEmpty ==
  \A i \in 1..Len(all_slides) : all_slides[i].title # <<>>

C8_SubmissionOrder ==
  /\ all_slides = Concat(doc_slides)
  /\ Len(doc_slides) = Len(outcomes)
  /\ pc \in {"call", "handle"} => (idx <= Len(files) /\ Len(doc_slides) = idx - 1)
  /\ \A i \in 1..Len(doc_slides) :
       outcomes[i] = "skipped" <=> extract_text(files[i]) = <<>>

\* C8's case: two files gave slides, the first one two of them
C8_Witness ==
  /\ pc = "done"
  /\ Len(doc_slides) = 2
  /\ Len(doc_slides[1]) = 2
  /\ Len(doc_slides[2]) = 1
  /\ doc_slides[2][1] \notin Range(doc_slides[1])

\* the scenario of C9: one text file of four sentences, the blue prompt, the model
\* call failed
C9_Scenario ==
  /\ design_prompt = BluePrompt
  /\ Len(files) = 1
  /\ files[1].data = FourSentences
  /\ outcomes = <<"failed">>

====
